---- MODULE Spec2Model ----
(***************************************************************************)
(* Model of src/main.py: a Streamlit script that renders the Mandelbrot    *)
(* set, re-centres and zooms the viewport on a dot drawn on the canvas,    *)
(* and upgrades the image from a draft (50 iterations) to a high quality   *)
(* (500 iterations) render once 10 seconds passed since the last click.    *)
(*                                                                         *)
(* The script is re-executed from the top on every widget event and on     *)
(* every st.experimental_rerun(); st.session_state survives the runs.  A   *)
(* run is cut into steps at the Streamlit calls where a pending rerun      *)
(* request stops the run (st.write, st.empty, placeholder.text).  Floats   *)
(* are modelled by exact rationals <<numerator, denominator>>.             *)
(***************************************************************************)
EXTENDS Integers, Sequences, FiniteSets, TLC

(* ---------------------------------------------------------------- bounds *)
\* number of dots the user draws in a behaviour
MaxClicks == 2
\* largest grid width and height handed to mandelbrot
MaxSize == 2
\* largest max_iter handed to mandelbrot
MaxIter == 3

(* ------------------------------------------------------ program constants *)
CanvasWidth == 1600
CanvasHeight == 900
DraftIter == 50
HighIter == 500
IdleThreshold == 10
SliderMin == -1000
SliderMax == 1000

(* --------------------------------------------------- inputs of the model *)
\* slider settings the user picks, all inside [SliderMin, SliderMax]
ZoomFactors == {-2, 0, 1, 10}
\* the settings picked in the specification with fairness
LiveZoomFactors == {1, 10}
\* dot positions (dot["left"], dot["top"]) the user draws
Dots == {<<800, 450>>, <<400, 900>>}
\* viewport bounds handed to mandelbrot: <<x_min, x_max>> and <<y_min, y_max>>
EvalXBounds == {<<-2, 1>>, <<0, 3>>}
EvalYBounds == {<<-1, 0>>, <<0, 1>>, <<-1, 1>>}

(* ------------------------------------------------------ exact arithmetic *)
\* A float is modelled by the rational it stands for, in lowest terms with a
\* positive denominator.  Each operation is a function applied to values,
\* so that a nested expression evaluates every operand once.
Abs(n) == IF n < 0 THEN -n ELSE n

\* greatest common divisor of two naturals
Euclid[a \in Nat, b \in Nat] == IF b = 0 THEN a ELSE Euclid[b, a % b]
GCD(a, b) == Euclid[a, b]
LCM(a, b) == (a \div GCD(a, b)) * b

\* the rational n/d (d # 0)
Reduced[n \in Int, d \in Int] ==
    LET g == GCD(Abs(n), Abs(d))
        s == IF d < 0 THEN -1 ELSE 1
    IN  <<(s * n) \div g, (s * d) \div g>>
Rat(n, d) == Reduced[n, d]

Rationals == Int \X Int
Num(r) == r[1]
Den(r) == r[2]
FromInt(n) == <<n, 1>>

Sum[r \in Rationals, s \in Rationals] ==
    LET m == LCM(Den(r), Den(s))
    IN  Rat(Num(r) * (m \div Den(r)) + Num(s) * (m \div Den(s)), m)
Product[r \in Rationals, s \in Rationals] ==
    LET a == Rat(Num(r), Den(s))
        b == Rat(Num(s), Den(r))
    IN  <<Num(a) * Num(b), Den(a) * Den(b)>>
Below[r \in Rationals, s \in Rationals] ==
    LET m == LCM(Den(r), Den(s))
    IN  Num(r) * (m \div Den(r)) < Num(s) * (m \div Den(s))

RAdd(r, s) == Sum[r, s]
RNeg(r) == <<-Num(r), Den(r)>>
RSub(r, s) == Sum[r, RNeg(s)]
RMul(r, s) == Product[r, s]
\* r / s, for s # 0
RDiv(r, s) == Product[r, Rat(Den(s), Num(s))]
RLess(r, s) == Below[r, s]

(* ------------------------------------------------------------ the state *)
VARIABLES
    \* st.session_state
    x_min, x_max, y_min, y_max,   \* viewport bounds (rationals)
    zoom_factor,                  \* integer stored from the slider
    total_zoom,                   \* rational
    last_point,                   \* <<>> for None, else <<x, y>>
    clear_canvas, zoom_pending,   \* booleans
    image_quality,                \* "very_low" or "high"
    elapsed,                      \* time.time() - last_click_time, capped at IdleThreshold
    mandelbrot_bg,                \* <<>> when absent, else the arguments it was rendered from
    \* the browser side
    slider,                       \* value of the 'Zoom Factor' slider widget
    canvas,                       \* json_data of the canvas component
    \* the running script
    pc,                           \* position of the current run
    canvas_result,                \* json_data as returned by st_canvas in this run
    sleep_left,                   \* what is left of time.sleep(1)
    rerun_requested,              \* a widget event asked for a rerun
    \* history
    clicks,                       \* dots drawn so far
    high_renders,                 \* 500-iteration renders since the last click was applied
    early_click,                  \* a dot was drawn during the idle wait before 10 s had passed
    drafted,                      \* a 50-iteration render was made since the viewport was last set
    applied,                      \* updates of the viewport by the click handler so far
    consumed,                     \* dots that had been drawn when the viewport was last updated
    \* a call of mandelbrot(h, w, x_min, x_max, y_min, y_max, max_iter)
    frame                         \* its arguments and locals, and where it stands

session == <<x_min, x_max, y_min, y_max, zoom_factor, total_zoom, last_point,
             clear_canvas, zoom_pending, image_quality, elapsed, mandelbrot_bg>>
browser == <<slider, canvas>>
script == <<pc, canvas_result, sleep_left, rerun_requested>>
history == <<clicks, high_renders, early_click, drafted, applied, consumed>>
vars == <<session, browser, script, history, frame>>

NoImage == <<>>
NoPoint == <<>>
\* json_data: None until the component reported, then {"objects": [...]}
NoData == [present |-> FALSE, objects |-> <<>>]
Data(objs) == [present |-> TRUE, objects |-> objs]

\* generate_mandelbrot_image is a deterministic function of its arguments:
\* the image is identified by the viewport and iteration budget it came from
generate_mandelbrot_image(xmin, xmax, ymin, ymax, max_iter) ==
    <<xmin, xmax, ymin, ymax, max_iter>>
\* the viewport and the budget an image was rendered from
ImageViewport(img) == <<img[1], img[2], img[3], img[4]>>
ImageIter(img) == img[5]

\* line 113 / line 179: json_data is not None and len(objects) > 0
HasObjects(jd) == jd.present /\ Len(jd.objects) > 0

\* no call of mandelbrot is followed step by step
NoCall == [pc |-> "none"]

Init ==
    /\ x_min = Rat(-5, 2)
    /\ x_max = FromInt(1)
    /\ y_min = Rat(-5, 4)
    /\ y_max = Rat(5, 4)
    /\ zoom_factor = 1
    /\ total_zoom = FromInt(1)
    /\ last_point = NoPoint
    /\ clear_canvas = FALSE
    /\ zoom_pending = FALSE
    /\ image_quality = "very_low"
    /\ elapsed = 0
    /\ mandelbrot_bg = NoImage
    /\ slider = 1
    /\ canvas = NoData
    /\ pc = "top"
    /\ canvas_result = NoData
    /\ sleep_left = 0
    /\ rerun_requested = FALSE
    /\ clicks = 0
    /\ high_renders = 0
    /\ early_click = FALSE
    /\ drafted = FALSE
    /\ applied = 0
    /\ consumed = 0
    /\ frame = NoCall


(* ------------------------------------------------ the user and the clock *)
\* the widgets exist once a run has drawn them
WidgetsShown == mandelbrot_bg # NoImage /\ canvas.present

\* the idle wait of lines 176-181
Waiting == pc \in {"loop", "sleep"}

\* the user draws a dot <<left, top>> on the canvas: the component reports the
\* new json_data and Streamlit asks for a rerun
PointClicked(dot) ==
    /\ UNCHANGED frame
    /\ WidgetsShown
    /\ clicks < MaxClicks
    /\ canvas' = Data(Append(canvas.objects, dot))
    /\ rerun_requested' = TRUE
    /\ clicks' = clicks + 1
    /\ early_click' = (early_click \/ (Waiting /\ elapsed < IdleThreshold))
    /\ UNCHANGED <<session, slider, pc, canvas_result, sleep_left, high_renders,
                   drafted, applied, consumed>>

\* the user moves the slider to n
ZoomFactorChanged(n) ==
    /\ UNCHANGED frame
    /\ WidgetsShown
    /\ n >= SliderMin /\ n <= SliderMax
    /\ n # slider
    /\ slider' = n
    /\ rerun_requested' = TRUE
    /\ UNCHANGED <<session, canvas, pc, canvas_result, sleep_left, history>>

\* one time unit passes (anywhere: renders and sleeps take time)
Tick ==
    /\ UNCHANGED frame
    /\ elapsed' = IF elapsed < IdleThreshold THEN elapsed + 1 ELSE elapsed
    /\ sleep_left' = IF sleep_left > 0 THEN sleep_left - 1 ELSE 0
    /\ UNCHANGED <<x_min, x_max, y_min, y_max, zoom_factor, total_zoom, last_point,
                   clear_canvas, zoom_pending, image_quality, mandelbrot_bg,
                   browser, pc, canvas_result, rerun_requested, clicks, high_renders,
                   early_click, drafted, applied, consumed>>

(* ------------------------------------------------------- one script run *)
\* a slider that gives back its value= argument instead of the widget's value
StSliderDefault(value) == value

\* line 90: st.slider(..., value=...) gives the value the widget shows
StSlider(value) == slider

\* an initial image rendered with the budget of the high quality render
InitialImageHigh == generate_mandelbrot_image(x_min, x_max, y_min, y_max, HighIter)

\* lines 74-80: the image a new session starts with
InitialImage == generate_mandelbrot_image(x_min, x_max, y_min, y_max, DraftIter)

\* lines 10-110: session defaults exist, initial image, slider, canvas
RunTop ==
    /\ UNCHANGED frame
    /\ pc = "top" \/ (pc = "done" /\ rerun_requested)
    /\ rerun_requested' = FALSE
    /\ IF mandelbrot_bg = NoImage
       THEN /\ mandelbrot_bg' = InitialImage
            /\ drafted' = (ImageIter(InitialImage) = DraftIter)
       ELSE UNCHANGED <<mandelbrot_bg, drafted>>
    /\ zoom_factor' = StSlider(zoom_factor)
    /\ IF clear_canvas
       THEN /\ canvas' = Data(<<>>)
            /\ canvas_result' \in {canvas, Data(<<>>)}
       ELSE /\ canvas' = Data(canvas.objects)
            /\ canvas_result' = canvas
    /\ clear_canvas' = FALSE
    /\ pc' = "check"
    /\ UNCHANGED <<x_min, x_max, y_min, y_max, total_zoom, last_point, zoom_pending,
                   image_quality, elapsed, slider, sleep_left, clicks, high_renders,
                   early_click, applied, consumed>>

\* a click guard that does not look at zoom_pending
DotDrawnAnyway == HasObjects(canvas_result)

\* a click guard that asks for a pending zoom instead of none
DotDrawnWhilePending == HasObjects(canvas_result) /\ zoom_pending

\* line 113
DotDrawn == HasObjects(canvas_result) /\ ~zoom_pending

\* lines 113-123: the dot is read and remembered; st.write (line 119) stops
\* the run when a rerun is pending
ClickBegin ==
    /\ UNCHANGED frame
    /\ pc = "check"
    /\ DotDrawn
    /\ IF rerun_requested
       THEN /\ pc' = "top"
            /\ UNCHANGED <<last_point, elapsed>>
       ELSE /\ last_point' = canvas_result.objects[Len(canvas_result.objects)]
            /\ elapsed' = 0
            /\ pc' = "rescale"
    /\ UNCHANGED <<x_min, x_max, y_min, y_max, zoom_factor, total_zoom, clear_canvas,
                   zoom_pending, image_quality, mandelbrot_bg, browser, canvas_result,
                   sleep_left, rerun_requested, history>>

\* lines 134-138
Multiplier(zf) == IF zf > 0 THEN Rat(1, zf) ELSE FromInt(Abs(zf))

\* lines 126-129: canvas position to plane coordinate
Rescaled[lo \in Rationals, hi \in Rationals, p \in Int, size \in Int] ==
    RAdd(lo, RMul(Rat(p, size), RSub(hi, lo)))
Rescale(lo, hi, p, size) == Rescaled[lo, hi, p, size]

\* a lower bound a whole zoomed range below the centre (the / 2 is missing)
ZoomedMinWholeRange(center, range, m) == RSub(center, RMul(range, m))

\* an upper bound half the old range above the centre (the zoom is not applied)
ZoomedMaxUnzoomed(center, range, m) == RAdd(center, RDiv(range, FromInt(2)))

\* lines 141-146
ZoomedMin(center, range, m) == RSub(center, RDiv(RMul(range, m), FromInt(2)))
ZoomedMax(center, range, m) == RAdd(center, RDiv(RMul(range, m), FromInt(2)))

\* lines 125-157: rescale, zoom, set the flags, rerun; st.write (line 132)
\* stops the run when a rerun is pending
ClickZoom ==
    /\ UNCHANGED frame
    /\ pc = "rescale"
    /\ pc' = "top"
    /\ IF rerun_requested
       THEN UNCHANGED <<x_min, x_max, y_min, y_max, total_zoom, clear_canvas,
                        zoom_pending, image_quality, early_click, high_renders,
                        drafted, applied, consumed>>
       ELSE LET x_range == RSub(x_max, x_min)
                y_range == RSub(y_max, y_min)
                new_x == Rescale(x_min, x_max, last_point[1], CanvasWidth)
                new_y == Rescale(y_min, y_max, last_point[2], CanvasHeight)
                m == Multiplier(zoom_factor)
            IN  /\ x_min' = ZoomedMin(new_x, x_range, m)
                /\ x_max' = ZoomedMax(new_x, x_range, m)
                /\ y_min' = ZoomedMin(new_y, y_range, m)
                /\ y_max' = ZoomedMax(new_y, y_range, m)
                /\ total_zoom' = RMul(total_zoom, m)
                /\ clear_canvas' = TRUE
                /\ zoom_pending' = TRUE
                /\ image_quality' = "very_low"
                /\ early_click' = FALSE
                /\ high_renders' = 0
                /\ drafted' = FALSE
                /\ applied' = applied + 1
                /\ consumed' = clicks
    /\ UNCHANGED <<zoom_factor, last_point, elapsed, mandelbrot_bg, browser,
                   canvas_result, sleep_left, rerun_requested, clicks>>

\* a draft rendered from the bounds the stored image was rendered from
DraftImageOfOldBounds ==
    generate_mandelbrot_image(mandelbrot_bg[1], mandelbrot_bg[2], mandelbrot_bg[3],
                              mandelbrot_bg[4], DraftIter)

\* lines 162-165: the draft is rendered from the bounds in the session state
DraftImage == generate_mandelbrot_image(x_min, x_max, y_min, y_max, DraftIter)

\* lines 160-171: the draft render of the new viewport
DraftRender ==
    /\ UNCHANGED frame
    /\ pc = "check"
    /\ ~DotDrawn
    /\ zoom_pending
    /\ mandelbrot_bg' = DraftImage
    /\ image_quality' = "very_low"
    /\ zoom_pending' = FALSE
    /\ drafted' = (ImageIter(DraftImage) = DraftIter)
    /\ pc' = "top"
    /\ UNCHANGED <<x_min, x_max, y_min, y_max, zoom_factor, total_zoom, last_point,
                   clear_canvas, elapsed, browser, canvas_result, sleep_left,
                   rerun_requested, clicks, high_renders, early_click, applied, consumed>>

\* lines 174-175: st.empty() stops the run when a rerun is pending
EnterWait ==
    /\ UNCHANGED frame
    /\ pc = "check"
    /\ ~DotDrawn
    /\ ~zoom_pending
    /\ image_quality = "very_low"
    /\ pc' = IF rerun_requested THEN "top" ELSE "loop"
    /\ UNCHANGED <<session, browser, canvas_result, sleep_left, rerun_requested, history>>

\* a loop condition that lets the wait end one time unit early
LoopConditionShort == elapsed < IdleThreshold - 1

\* line 176: time.time() - st.session_state.last_click_time < 10
LoopCondition == elapsed < IdleThreshold

\* lines 176-178: the loop condition holds; placeholder.text stops the run
\* when a rerun is pending, else the run sleeps one second
WaitLoop ==
    /\ UNCHANGED frame
    /\ pc = "loop"
    /\ LoopCondition
    /\ IF rerun_requested
       THEN pc' = "top" /\ UNCHANGED sleep_left
       ELSE pc' = "sleep" /\ sleep_left' = 1
    /\ UNCHANGED <<session, browser, canvas_result, rerun_requested, history>>

\* a wake-up that restarts the 10 seconds on every pass of the loop
WakeRestartsTimer ==
    /\ UNCHANGED frame
    /\ pc = "sleep"
    /\ sleep_left = 0
    /\ elapsed' = 0
    /\ pc' = IF HasObjects(canvas_result) THEN "done" ELSE "loop"
    /\ UNCHANGED <<x_min, x_max, y_min, y_max, zoom_factor, total_zoom, last_point,
                   clear_canvas, zoom_pending, image_quality, mandelbrot_bg, browser,
                   canvas_result, sleep_left, rerun_requested, history>>

\* lines 179-181: after the sleep, the json_data this run got is looked at
Wake ==
    /\ UNCHANGED frame
    /\ pc = "sleep"
    /\ sleep_left = 0
    /\ IF HasObjects(canvas_result)
       THEN elapsed' = 0 /\ pc' = "done"
       ELSE UNCHANGED elapsed /\ pc' = "loop"
    /\ UNCHANGED <<x_min, x_max, y_min, y_max, zoom_factor, total_zoom, last_point,
                   clear_canvas, zoom_pending, image_quality, mandelbrot_bg, browser,
                   canvas_result, sleep_left, rerun_requested, history>>

\* lines 182-192: the loop ended without break
HighRender ==
    /\ UNCHANGED frame
    /\ pc = "loop"
    /\ ~LoopCondition
    /\ mandelbrot_bg' = generate_mandelbrot_image(x_min, x_max, y_min, y_max, HighIter)
    /\ image_quality' = "high"
    /\ high_renders' = high_renders + 1
    /\ pc' = "top"
    /\ UNCHANGED <<x_min, x_max, y_min, y_max, zoom_factor, total_zoom, last_point,
                   clear_canvas, zoom_pending, elapsed, browser, canvas_result,
                   sleep_left, rerun_requested, clicks, early_click, drafted, applied,
                   consumed>>

\* lines 194-196: nothing to do, the run ends
Finish ==
    /\ UNCHANGED frame
    /\ pc = "check"
    /\ ~DotDrawn
    /\ ~zoom_pending
    /\ image_quality # "very_low"
    /\ pc' = "done"
    /\ UNCHANGED <<session, browser, canvas_result, sleep_left, rerun_requested, history>>

Next ==
    \/ \E dot \in Dots : PointClicked(dot)
    \/ \E n \in ZoomFactors : ZoomFactorChanged(n)
    \/ Tick
    \/ RunTop
    \/ ClickBegin
    \/ ClickZoom
    \/ DraftRender
    \/ EnterWait
    \/ WaitLoop
    \/ Wake
    \/ HighRender
    \/ Finish

Spec == Init /\ [][Next]_vars

\* the steps of the script thread, which Streamlit runs to the end of the run
ScriptStep ==
    \/ RunTop
    \/ ClickBegin
    \/ ClickZoom
    \/ DraftRender
    \/ EnterWait
    \/ WaitLoop
    \/ Wake
    \/ HighRender
    \/ Finish

\* the session with a user who moves the slider between two settings only
\* (the control flow of the script does not read the viewport)
LiveNext ==
    \/ \E dot \in Dots : PointClicked(dot)
    \/ \E n \in LiveZoomFactors : ZoomFactorChanged(n)
    \/ Tick
    \/ ScriptStep

\* the script thread keeps running and time keeps passing; the user is free
FairSpec == Init /\ [][LiveNext]_vars /\ WF_vars(ScriptStep) /\ WF_vars(Tick)

(* ------------------------------------------------- mandelbrot, lines 15-31 *)
\* complex numbers are pairs <<re, im>> of rationals
CZero == <<FromInt(0), FromInt(0)>>
Re(z) == z[1]
Im(z) == z[2]
\* z * z + c (line 27)
CSquarePlus(z, c) ==
    << RAdd(RSub(RMul(Re(z), Re(z)), RMul(Im(z), Im(z))), Re(c)),
       RAdd(RMul(FromInt(2), RMul(Re(z), Im(z))), Im(c)) >>
\* z.real * z.real + z.imag * z.imag (line 28)
NormSquared(z) == RAdd(RMul(Re(z), Re(z)), RMul(Im(z), Im(z)))
\* line 28: the squared modulus is > 4.0
Escaped(z) == RLess(FromInt(4), NormSquared(z))

\* a linspace that yields one sample too many
LinspaceOneMore(start, stop, num) ==
    [n \in 1..(num + 1) |-> RAdd(start, RMul(Rat(n - 1, num), RSub(stop, start)))]

\* np.linspace(start, stop, num): num evenly spaced samples, both ends
\* included; a single sample is start
Linspace(start, stop, num) ==
    [n \in 1..num |->
        IF num = 1 THEN start
        ELSE RAdd(start, RMul(Rat(n - 1, num - 1), RSub(stop, start)))]

\* index set of an array of the given shape (rows, columns), 0-based
Indices(rows, cols) == (0..(rows - 1)) \X (0..(cols - 1))

\* line 19: C = x + y[:, None] * 1j, of shape (len(y), len(x))
Grid(x, y) ==
    [c \in Indices(Len(y), Len(x)) |-> <<x[c[2] + 1], y[c[1] + 1]>>]

\* the calls that are followed: every size and budget up to the bounds
Calls ==
    { [pc |-> "setup", h |-> h, w |-> w,
       x_min |-> FromInt(xb[1]), x_max |-> FromInt(xb[2]),
       y_min |-> FromInt(yb[1]), y_max |-> FromInt(yb[2]),
       max_iter |-> mi] :
        h \in 1..MaxSize, w \in 1..MaxSize, xb \in EvalXBounds, yb \in EvalYBounds,
        mi \in 1..MaxIter }

\* history of a cell: first[c] is the first iteration in which line 28
\* held for cell c, and max_iter as long as there is none
Found(f, c) == f.first[c] < f.max_iter

\* lines 17-21: the sample grid and the two zero arrays
MandelbrotSetup ==
    /\ frame.pc = "setup"
    /\ LET x == Linspace(frame.x_min, frame.x_max, frame.w)
           y == Linspace(frame.y_min, frame.y_max, frame.h)
           C == Grid(x, y)
       IN  frame' = [h |-> frame.h, w |-> frame.w, max_iter |-> frame.max_iter,
                     x_min |-> frame.x_min, x_max |-> frame.x_max,
                     y_min |-> frame.y_min, y_max |-> frame.y_max,
                     C |-> C,
                     Z |-> [c \in DOMAIN C |-> CZero],
                     div_time |-> [c \in DOMAIN C |-> 0],
                     first |-> [c \in DOMAIN C |-> frame.max_iter],
                     i |-> 0, j |-> 0, k |-> 0,
                     pc |-> "loop"]
    /\ UNCHANGED <<session, browser, script, history>>

\* lines 26-29: the loop body for cell (j, k) in iteration i
Body(f) ==
    LET c == <<f.j, f.k>>
        z == CSquarePlus(f.Z[c], f.C[c])
    IN  IF f.div_time[c] = 0
        THEN [f EXCEPT !.Z[c] = z,
                       !.div_time[c] = IF Escaped(z) THEN f.i ELSE @,
                       !.first[c] = IF Escaped(z) /\ ~Found(f, c) THEN f.i ELSE @]
        ELSE f

\* lines 23-25: the next (i, j, k) of the three nested range loops, or the
\* end of the loops
Advance(f) ==
    IF f.k + 1 < f.w THEN [f EXCEPT !.k = @ + 1]
    ELSE IF f.j + 1 < f.h THEN [f EXCEPT !.k = 0, !.j = @ + 1]
    ELSE IF f.i + 1 < f.max_iter THEN [f EXCEPT !.k = 0, !.j = 0, !.i = @ + 1]
    ELSE [f EXCEPT !.pc = "return"]

MandelbrotCell ==
    /\ frame.pc = "loop"
    /\ frame' = Advance(Body(frame))
    /\ UNCHANGED <<session, browser, script, history>>

\* line 31
MandelbrotReturn ==
    /\ frame.pc = "return"
    /\ frame' = [pc |-> "returned", h |-> frame.h, w |-> frame.w,
                 max_iter |-> frame.max_iter, C |-> frame.C,
                 first |-> frame.first, result |-> frame.div_time]
    /\ UNCHANGED <<session, browser, script, history>>

EvalInit ==
    /\ x_min = Rat(-5, 2)
    /\ x_max = FromInt(1)
    /\ y_min = Rat(-5, 4)
    /\ y_max = Rat(5, 4)
    /\ zoom_factor = 1
    /\ total_zoom = FromInt(1)
    /\ last_point = NoPoint
    /\ clear_canvas = FALSE
    /\ zoom_pending = FALSE
    /\ image_quality = "very_low"
    /\ elapsed = 0
    /\ mandelbrot_bg = NoImage
    /\ slider = 1
    /\ canvas = NoData
    /\ pc = "top"
    /\ canvas_result = NoData
    /\ sleep_left = 0
    /\ rerun_requested = FALSE
    /\ clicks = 0
    /\ high_renders = 0
    /\ early_click = FALSE
    /\ drafted = FALSE
    /\ applied = 0
    /\ consumed = 0
    /\ frame \in Calls

EvalNext ==
    \/ MandelbrotSetup
    \/ MandelbrotCell
    \/ MandelbrotReturn

EvalSpec == EvalInit /\ [][EvalNext]_vars

(* ------------------------------------------------------------ properties *)
Viewport == <<x_min, x_max, y_min, y_max>>
DefaultViewport == <<Rat(-5, 2), FromInt(1), Rat(-5, 4), Rat(5, 4)>>
\* the step that applies a click: lines 134-157 run to the rerun
ClickApplied == pc = "rescale" /\ ~rerun_requested /\ pc' = "top"

\* C1: in every reachable session state x_min < x_max and y_min < y_max,
\* for every dot position and every slider setting in [-1000, 1000].
C1_ViewportOrdered == RLess(x_min, x_max) /\ RLess(y_min, y_max)

\* C2: total_zoom is strictly greater than 0 in every reachable state.
C2_TotalZoomPositive == RLess(FromInt(0), total_zoom)

\* C3: after a draft render, 10 time units without a click bring exactly
\* one high-iteration render and image_quality "high"; no second one is
\* issued before a new click is applied.  Between two applied clicks there
\* is at most one 500-iteration render, image_quality is "high" only with
\* that render stored, a run never ends while the image is a draft, and
\* once the user stops, the session settles in "high".
C3_Safe ==
    /\ high_renders <= 1
    /\ image_quality = "high" =>
          high_renders = 1 /\ ImageIter(mandelbrot_bg) = HighIter
    /\ pc = "done" => image_quality = "high"
C3_OneHighRender ==
    /\ []C3_Safe
    /\ (<>[](~rerun_requested) => <>[](image_quality = "high" /\ pc = "done"))

\* the high-iteration render that follows a click's draft render was made
C3_Witness ==
    /\ clicks > 0
    /\ last_point # NoPoint
    /\ high_renders = 1
    /\ image_quality = "high"
    /\ mandelbrot_bg = generate_mandelbrot_image(x_min, x_max, y_min, y_max, HighIter)
    /\ pc = "done"

\* C4: a dot drawn during the idle wait, before 10 time units elapsed, is
\* never followed by a high-iteration render of the viewport it was drawn
\* on: until that click is applied the image stays the draft.
C4_EarlyClickPreempts ==
    early_click => image_quality = "very_low" /\ ImageIter(mandelbrot_bg) = DraftIter

\* C5: once a click changed the viewport and the draft render of the new
\* viewport completed, the stored image is one of the current viewport;
\* every render stores an image computed from the bounds current at its end.
C5_ImageOfCurrentViewport ==
    /\ [](mandelbrot_bg # NoImage /\ ~zoom_pending
            => ImageViewport(mandelbrot_bg) = Viewport)
    /\ [][mandelbrot_bg' # mandelbrot_bg
            => ImageViewport(mandelbrot_bg') = Viewport']_vars

\* a click changed the viewport, its draft render completed and the image
\* shown is that draft
C5_Witness ==
    /\ clicks > 0
    /\ Viewport # DefaultViewport
    /\ ~zoom_pending
    /\ mandelbrot_bg = generate_mandelbrot_image(x_min, x_max, y_min, y_max, DraftIter)

\* C8: an applied click with slider setting n # 0 centres the viewport on
\* the plane point of the dot and scales width and height by m, m = 1/n for
\* n > 0 and m = |n| for n < 0; a centre click on the default viewport with
\* n = 10 gives width 0.35 and height 0.25 around the same centre, and a
\* centre click with n = 1 leaves the four bounds unchanged.
C8_RecenterAndZoom ==
    [][ClickApplied /\ zoom_factor # 0 =>
        LET width == RSub(x_max, x_min)
            height == RSub(y_max, y_min)
            width2 == RSub(x_max', x_min')
            height2 == RSub(y_max', y_min')
            n == FromInt(Abs(zoom_factor))
            two == FromInt(2)
        IN  \* 1600 * centre_x = 1600 * x_min + left * width, and so for y
            /\ RMul(FromInt(CanvasWidth), RDiv(RAdd(x_min', x_max'), two))
                 = RAdd(RMul(FromInt(CanvasWidth), x_min),
                        RMul(FromInt(last_point[1]), width))
            /\ RMul(FromInt(CanvasHeight), RDiv(RAdd(y_min', y_max'), two))
                 = RAdd(RMul(FromInt(CanvasHeight), y_min),
                        RMul(FromInt(last_point[2]), height))
            /\ zoom_factor > 0 => RMul(n, width2) = width /\ RMul(n, height2) = height
            /\ zoom_factor < 0 => width2 = RMul(n, width) /\ height2 = RMul(n, height)
            /\ (Viewport = DefaultViewport /\ last_point = <<800, 450>> /\ zoom_factor = 10)
                 => /\ width2 = Rat(35, 100)
                    /\ height2 = Rat(25, 100)
                    /\ RAdd(x_min', x_max') = RAdd(x_min, x_max)
                    /\ RAdd(y_min', y_max') = RAdd(y_min, y_max)
            /\ (last_point = <<800, 450>> /\ zoom_factor = 1) => Viewport' = Viewport
    ]_vars

\* the centre click with n = 10 on the default viewport was applied
C8_Witness ==
    /\ zoom_pending
    /\ last_point = <<800, 450>>
    /\ RSub(x_max, x_min) = Rat(35, 100)
    /\ RSub(y_max, y_min) = Rat(25, 100)
    /\ RAdd(x_min, x_max) = Rat(-3, 2)
    /\ RAdd(y_min, y_max) = FromInt(0)

\* C9: a click applied while the slider setting is 0 leaves width, height
\* and total_zoom as they were and stores no zero-extent viewport.
C9_ZeroIsNoOp ==
    [][ClickApplied /\ zoom_factor = 0 =>
        /\ RSub(x_max', x_min') = RSub(x_max, x_min)
        /\ RSub(y_max', y_min') = RSub(y_max, y_min)
        /\ total_zoom' = total_zoom
        /\ RLess(x_min', x_max')
        /\ RLess(y_min', y_max')
    ]_vars

\* C10: moving the slider changes nothing of the session; storing the new
\* value (line 91) changes zoom_factor only, and renders nothing; the click
\* applied next uses the value the slider shows.
C10_SliderOnlySetsZoomFactor ==
    /\ [][slider' # slider =>
            UNCHANGED <<x_min, x_max, y_min, y_max, zoom_factor, total_zoom, elapsed,
                        image_quality, mandelbrot_bg, zoom_pending>>]_vars
    /\ [][zoom_factor' # zoom_factor =>
            /\ zoom_factor' = slider
            /\ UNCHANGED <<x_min, x_max, y_min, y_max, total_zoom, elapsed,
                           image_quality, mandelbrot_bg, zoom_pending>>]_vars
    /\ [][ClickApplied => zoom_factor = slider]_vars

\* a click was applied with a setting the user chose on the slider
C10_Witness ==
    /\ zoom_pending
    /\ zoom_factor = 10
    /\ slider = 10
    /\ total_zoom = Rat(1, 10)

\* C6: for every valid viewport, every width, height >= 1 and max_iter >= 1
\* mandelbrot returns a grid of exactly height rows and width columns whose
\* values all lie in [0, max_iter].
C6_GridShapeAndRange ==
    frame.pc = "returned" =>
        /\ DOMAIN frame.result = Indices(frame.h, frame.w)
        /\ \A c \in DOMAIN frame.result :
              frame.result[c] >= 0 /\ frame.result[c] <= frame.max_iter

\* a 2 x 2 grid was returned that holds an escape found in the last iteration
C6_Witness ==
    /\ frame.pc = "returned"
    /\ frame.h = 2 /\ frame.w = 2
    /\ \E c \in DOMAIN frame.result : frame.result[c] = frame.max_iter - 1
    /\ frame.max_iter = MaxIter

\* C7: for every max_iter >= 1 a cell sampled at c = 3 + 0i is returned as
\* escaping at iteration 1.
C7_ThreeEscapesAtOne ==
    frame.pc = "returned" =>
        \A c \in DOMAIN frame.result :
            frame.C[c] = <<FromInt(3), FromInt(0)>> => frame.result[c] = 1

\* the step that issues the 500-iteration render (lines 184-189)
HighRenderIssued == high_renders' = high_renders + 1
\* the step in which a 50-iteration render ends (lines 75-79, 162-165)
DraftEnded == ~drafted /\ drafted'
\* the step that takes the timestamp of a click (line 123)
ClickStamped == pc = "check" /\ pc' = "rescale"

\* C11: the high-iteration render is issued only when at least 10 time
\* units passed since the most recent draft render ended: the 10 units are
\* counted from a timestamp, and that timestamp is taken when the draft
\* render ends, for the initial render and for every draft after a click.
C11_TimedFromDraftEnd ==
    /\ [][HighRenderIssued => elapsed >= IdleThreshold]_vars
    /\ [][DraftEnded => elapsed' = 0]_vars

\* C11, amended: the high-iteration render is issued only when at least 10
\* time units passed since last_click_time, which is taken at session start
\* and whenever the handler reads a click, and which the end of a draft
\* render leaves as it is.
C11_TimedFromClick ==
    /\ [][HighRenderIssued => elapsed >= IdleThreshold]_vars
    /\ [][elapsed' < elapsed => ClickStamped /\ elapsed' = 0]_vars
    /\ [][ClickStamped => elapsed' = 0]_vars
    /\ [][DraftEnded => elapsed' = elapsed]_vars

\* a click was applied and the high-iteration render was issued 10 time
\* units after the click was read
C11_Witness ==
    /\ applied = 1
    /\ high_renders = 1
    /\ image_quality = "high"
    /\ elapsed = IdleThreshold
    /\ pc = "top"
    /\ ~rerun_requested

\* C12: the first render of a session is a 50-iteration render, and every
\* applied click, whatever the quality before it, is followed by a
\* 50-iteration render of the new viewport before a 500-iteration render
\* of that viewport is issued: the high-iteration render is only issued
\* while the stored image is the draft of the current viewport.
C12_DraftFirst ==
    /\ [][mandelbrot_bg = NoImage /\ mandelbrot_bg' # NoImage
            => ImageIter(mandelbrot_bg') = DraftIter]_vars
    /\ [][ClickApplied => ~drafted' /\ zoom_pending']_vars
    /\ [][HighRenderIssued =>
            /\ drafted
            /\ mandelbrot_bg = generate_mandelbrot_image(x_min, x_max, y_min, y_max, DraftIter)
            /\ ImageViewport(mandelbrot_bg') = Viewport]_vars
    /\ (zoom_pending ~> (drafted /\ mandelbrot_bg = DraftImage))

\* two clicks were applied, the second one on a refined image, and the
\* draft of the second viewport was followed by its high-iteration render
C12_Witness ==
    /\ applied = 2
    /\ drafted
    /\ high_renders = 1
    /\ mandelbrot_bg = generate_mandelbrot_image(x_min, x_max, y_min, y_max, HighIter)
    /\ pc = "top"

\* the values mandelbrot holds for the cells: div_time, or what it returned
Recorded == IF frame.pc = "returned" THEN frame.result ELSE frame.div_time
Evaluating == frame.pc \in {"loop", "return", "returned"}

\* C13: for every cell and max_iter >= 1, the value recorded for an
\* escaping cell is the index of the first iteration in which |z|^2 > 4 was
\* found, no later iteration changes it, and two cells that first exceed
\* the threshold in different iterations have different values.
C13_FirstEscapeRecorded ==
    Evaluating =>
        /\ \A c \in DOMAIN frame.C :
              Found(frame, c) => Recorded[c] = frame.first[c]
        /\ \A c, d \in DOMAIN frame.C :
              (Found(frame, c) /\ Found(frame, d) /\ frame.first[c] # frame.first[d])
                 => Recorded[c] # Recorded[d]

\* C14: the click handler maps a canvas position with the convention of
\* the sample grid: on a canvas of the size of the grid, a click at pixel
\* (column k, row j) gives the plane point mandelbrot samples for cell
\* (row j, column k) of the same viewport.
C14_ClickMapsToSample ==
    frame.pc \in {"loop", "return"} =>
        \A c \in DOMAIN frame.C :
            /\ Rescale(frame.x_min, frame.x_max, c[2], frame.w) = Re(frame.C[c])
            /\ Rescale(frame.y_min, frame.y_max, c[1], frame.h) = Im(frame.C[c])

\* C15: in every reachable state x_max - x_min = 3.5 * total_zoom and
\* y_max - y_min = 2.5 * total_zoom, in exact arithmetic.
C15_ExtentsTrackZoom ==
    /\ RSub(x_max, x_min) = RMul(Rat(7, 2), total_zoom)
    /\ RSub(y_max, y_min) = RMul(Rat(5, 2), total_zoom)

\* two clicks with the slider at -2 were applied: total_zoom is 4 and the
\* viewport is 14 wide and 10 high
C15_Witness ==
    /\ applied = 2
    /\ total_zoom = FromInt(4)
    /\ RSub(x_max, x_min) = FromInt(14)
    /\ RSub(y_max, y_min) = FromInt(10)

\* C16: for every max_iter >= 1 a cell of the returned grid holds 0 exactly
\* when its trajectory never exceeded |z|^2 > 4 within max_iter iterations;
\* the cell of c = 0 holds 0 for every max_iter, and no cell whose
\* trajectory exceeded the threshold is returned as 0.
C16_ZeroIffNeverEscaped ==
    frame.pc = "returned" =>
        \A c \in DOMAIN frame.result :
            /\ frame.result[c] = 0 <=> ~Found(frame, c)
            /\ frame.C[c] = CZero => frame.result[c] = 0

\* C17: a run that reaches the idle wait loop has a canvas result without
\* objects (a run whose canvas result has objects goes to the click handler
\* or to the draft render and ends in a rerun there), so the branch of
\* lines 179-181 that restarts last_click_time and breaks is never taken;
\* a run that entered the loop leaves it only by the high-iteration render
\* or by being interrupted, and if it is not interrupted it does end in
\* the high-iteration render.
C17_WaitSeesNoObjects ==
    /\ [](Waiting => ~HasObjects(canvas_result) /\ image_quality = "very_low")
    /\ [][pc = "check" /\ HasObjects(canvas_result)
            => pc' \in {"check", "rescale", "top"}]_vars
    /\ [][pc = "sleep" => pc' \in {"sleep", "loop"} /\ elapsed' >= elapsed]_vars
    /\ [][Waiting /\ ~Waiting' => HighRenderIssued \/ rerun_requested]_vars
    /\ (Waiting ~> (image_quality = "high" \/ rerun_requested))

\* the run of the draft of an applied click sleeps in the idle wait loop,
\* 5 time units after the click was read
C17_Witness ==
    /\ pc = "sleep"
    /\ applied = 1
    /\ canvas_result = Data(<<>>)
    /\ elapsed = 5
    /\ ~rerun_requested

\* the script came to rest: the run ended and no event waits for a rerun
AtRest == pc = "done" /\ ~rerun_requested

\* C18: a drawn dot is applied to the viewport exactly once: the bounds and
\* total_zoom change once per user click, so when the script is at rest
\* there were as many updates as dots drawn, and a dot still reported
\* while zoom_pending is true causes no second update.
C18_OncePerClick ==
    /\ [](applied <= clicks)
    /\ [](AtRest => applied = clicks)
    /\ [][zoom_pending /\ HasObjects(canvas_result) => applied' = applied]_vars

\* C18, amended: the bounds and total_zoom change in the handler's update
\* only, at most once per drawn dot: every update uses a dot drawn after
\* the update before it, a dot still reported while zoom_pending is true
\* causes no update, and a dot that is the only one drawn is applied
\* exactly once.  A dot drawn before the script handled the dot before it
\* can go without an update.
C18_AtMostOncePerClick ==
    /\ [](applied <= clicks /\ consumed <= clicks)
    /\ [][applied' # applied => ClickApplied /\ applied' = applied + 1]_vars
    /\ [][ClickApplied => clicks > consumed /\ applied' = applied + 1]_vars
    /\ [][Viewport' # Viewport \/ total_zoom' # total_zoom => ClickApplied]_vars
    /\ [][zoom_pending /\ HasObjects(canvas_result)
            => applied' = applied /\ Viewport' = Viewport /\ total_zoom' = total_zoom]_vars
    /\ [](AtRest /\ clicks = 1 => applied = 1)

\* one dot was drawn and applied once; the run after the update cleared the
\* canvas, was still handed the dot, and zoom_pending is true
C18_Witness ==
    /\ pc = "check"
    /\ zoom_pending
    /\ clicks = 1
    /\ applied = 1
    /\ HasObjects(canvas_result)
    /\ canvas = Data(<<>>)

====
